---------------------------- MODULE Spec2Model ----------------------------
(***************************************************************************)
(* A model of fire7: data binding between Cloud Firestore and the state of *)
(* a Framework7 application (src/src/helpers.js holds the three modules    *)
(* helpers.js, the facade with its registry, and subscription.js).         *)
(*                                                                         *)
(* JavaScript values are tagged records.  A path is the string the code    *)
(* builds, kept as its sequence of tokens: a property name or an index is  *)
(* one token, and ".", "[" and "]" are tokens of their own.                *)
(***************************************************************************)
EXTENDS Integers, Sequences, FiniteSets, TLC

(***************************************************************************)
(* Bounds of the model.                                                    *)
(***************************************************************************)
MaxIndex == 2

(***************************************************************************)
(* JavaScript values.                                                      *)
(***************************************************************************)
Undefined == [t |-> "undef"]
Null == [t |-> "null"]
TypeError == [t |-> "TypeError"]
Str(s) == [t |-> "str", s |-> s]
Ref(d) == [t |-> "ref", id |-> d]
Obj(kv) == [t |-> "obj", kv |-> kv]
Arr(e) == [t |-> "arr", e |-> e]
SubV(n) == [t |-> "sub", id |-> n]
EmptyObj == Obj(<<>>)
EmptyArr == Arr(<<>>)

isArray(target) == target.t = "arr"

isObject(target) == target.t \in {"obj", "arr", "ref", "sub"}

isFirestoreRef(target) == isObject(target) /\ target.t = "ref"

Falsy(v) == v.t \in {"undef", "null"} \/ v = Str("")

(***************************************************************************)
(* Property access: obj[key], key in obj, and obj[key] = value, for        *)
(* objects (ordered by insertion) and arrays (an absent element is a       *)
(* hole, read as undefined).                                               *)
(***************************************************************************)
IsIndex(k) == \E i \in 0..MaxIndex : ToString(i) = k

NumberOf(k) == CHOOSE i \in 0..MaxIndex : ToString(i) = k

HasKey(obj, k) ==
    CASE obj.t = "obj" -> \E j \in 1..Len(obj.kv) : obj.kv[j][1] = k
      [] obj.t = "arr" -> /\ IsIndex(k)
                          /\ NumberOf(k) < Len(obj.e)
                          /\ obj.e[NumberOf(k) + 1] # Undefined
      [] OTHER -> FALSE

GetKey(obj, k) ==
    CASE obj.t = "obj" ->
           IF HasKey(obj, k)
           THEN obj.kv[CHOOSE j \in 1..Len(obj.kv) : obj.kv[j][1] = k][2]
           ELSE Undefined
      [] obj.t = "arr" ->
           IF HasKey(obj, k) THEN obj.e[NumberOf(k) + 1] ELSE Undefined
      [] OTHER -> Undefined

Grow(e, n) == e \o [j \in 1..(n - Len(e)) |-> Undefined]

SetKey(obj, k, v) ==
    CASE obj.t = "obj" ->
           IF HasKey(obj, k)
           THEN [obj EXCEPT !.kv = [j \in 1..Len(obj.kv) |->
                       IF obj.kv[j][1] = k THEN <<k, v>> ELSE obj.kv[j]]]
           ELSE [obj EXCEPT !.kv = Append(obj.kv, <<k, v>>)]
      [] obj.t = "arr" /\ IsIndex(k) ->
           Arr([Grow(obj.e, NumberOf(k) + 1) EXCEPT ![NumberOf(k) + 1] = v])
      [] OTHER -> TypeError

(***************************************************************************)
(* Strings as token sequences: the text of a segment, split('.').          *)
(***************************************************************************)
RECURSIVE Join(_)
Join(toks) == IF toks = <<>> THEN "" ELSE Head(toks) \o Join(Tail(toks))

RECURSIVE Split(_, _)
Split(toks, cur) ==
    IF toks = <<>> THEN <<cur>>
    ELSE IF Head(toks) = "." THEN <<cur>> \o Split(Tail(toks), <<>>)
    ELSE Split(Tail(toks), Append(cur, Head(toks)))

IsWord(tok) == tok \notin {".", "[", "]"}

\* path.replace(/\[(\w+)\]/g, '.$1')
RECURSIVE IndexesToProperties(_)
IndexesToProperties(toks) ==
    IF toks = <<>> THEN <<>>
    ELSE IF /\ Len(toks) >= 3
            /\ toks[1] = "["
            /\ IsWord(toks[2])
            /\ toks[3] = "]"
         THEN <<".", toks[2]>> \o IndexesToProperties(SubSeq(toks, 4, Len(toks)))
         ELSE <<Head(toks)>> \o IndexesToProperties(Tail(toks))

\* path.replace(/^\./, '')
StripLeadingDot(toks) ==
    IF toks # <<>> /\ Head(toks) = "." THEN Tail(toks) ELSE toks

(***************************************************************************)
(* walkGet: a thrown TypeError is the value TypeError.  The path is a      *)
(* JavaScript value: String(toks), or undefined (path.replace throws).     *)
(***************************************************************************)
String(toks) == [t |-> "string", toks |-> toks]

RECURSIVE walkGetFrom(_, _, _)
walkGetFrom(object, arr, i) ==
    IF i > Len(arr) THEN object
    ELSE IF isObject(object) /\ HasKey(object, Join(arr[i]))
         THEN walkGetFrom(GetKey(object, Join(arr[i])), arr, i + 1)
         ELSE Undefined

walkGet(object, path) ==
    IF path.t # "string" THEN TypeError
    ELSE walkGetFrom(object,
                     Split(StripLeadingDot(IndexesToProperties(path.toks)), <<>>), 1)

(***************************************************************************)
(* walkSet: the root after the assignment (the code mutates it in place).  *)
(***************************************************************************)
\* segment.match(/^(.+)\[(\d+)\]$/)
ArrayMatch(segment) ==
    /\ Len(segment) >= 4
    /\ segment[Len(segment)] = "]"
    /\ IsIndex(segment[Len(segment) - 1])
    /\ segment[Len(segment) - 2] = "["

ArrayName(segment) == Join(SubSeq(segment, 1, Len(segment) - 3))

ArrayIndex(segment) == NumberOf(segment[Len(segment) - 1])

\* obj[arrayName].length = arrayIndex + 1, when it is shorter
WithLength(a, n) == IF a.t = "arr" /\ Len(a.e) < n THEN Arr(Grow(a.e, n)) ELSE a

RECURSIVE walkSetFrom(_, _, _, _)
walkSetFrom(obj, segmentList, i, value) ==
    LET segment == segmentList[i]
        last == i > Len(segmentList) - 1
    IN  IF ~isObject(obj) THEN TypeError
        ELSE IF ArrayMatch(segment)
        THEN LET a0 == GetKey(obj, ArrayName(segment))
                 a1 == WithLength(IF Falsy(a0) THEN EmptyArr ELSE a0,
                                  ArrayIndex(segment) + 1)
                 k == ToString(ArrayIndex(segment))
                 e0 == GetKey(a1, k)
                 e1 == IF Falsy(e0) THEN EmptyObj ELSE e0
                 inner == IF last THEN value
                          ELSE walkSetFrom(e1, segmentList, i + 1, value)
                 a2 == IF isObject(a1) THEN SetKey(a1, k, inner) ELSE TypeError
             IN  IF inner = TypeError \/ a2 = TypeError THEN TypeError
                 ELSE SetKey(obj, ArrayName(segment), a2)
        ELSE LET c0 == GetKey(obj, Join(segment))
                 c1 == IF Falsy(c0) THEN EmptyObj ELSE c0
                 inner == IF last THEN value
                          ELSE walkSetFrom(c1, segmentList, i + 1, value)
             IN  IF inner = TypeError THEN TypeError
                 ELSE SetKey(obj, Join(segment), inner)

walkSet(object, path, value) == walkSetFrom(object, Split(path, <<>>), 1, value)

(***************************************************************************)
(* extractRefs: the entries pushed to subs, in the order of the pushes.    *)
(***************************************************************************)
Entry(path, ref) == [t |-> "entry", path |-> path, ref |-> ref]

\* the text of a property name: a name with a dot in it is several tokens
Tokens(prop) == IF prop = "a.b" THEN <<"a", ".", "b">> ELSE <<prop>>

RECURSIVE extractRefs(_, _)
RECURSIVE extractFromArray(_, _, _)
RECURSIVE extractFromObject(_, _, _)

extractFromArray(obj, currentPath, i) ==
    IF i >= Len(obj.e) THEN <<>>
    ELSE LET elem == obj.e[i + 1]
             path == currentPath \o <<"[", ToString(i), "]">>
         IN  (IF ~isObject(elem) THEN <<>>
              ELSE IF isFirestoreRef(elem) THEN <<Entry(path, elem)>>
              ELSE extractRefs(elem, path))
             \o extractFromArray(obj, currentPath, i + 1)

extractFromObject(obj, currentPath, j) ==
    IF j > Len(obj.kv) THEN <<>>
    ELSE LET prop == obj.kv[j][1]
             val == obj.kv[j][2]
             startPath == IF currentPath # <<>> THEN Append(currentPath, ".")
                          ELSE <<>>
         IN  (IF ~isObject(val) THEN <<>>
              ELSE IF isFirestoreRef(val)
                   THEN <<Entry(startPath \o Tokens(prop), val)>>
                   ELSE extractRefs(val, startPath \o Tokens(prop)))
             \o extractFromObject(obj, currentPath, j + 1)

extractRefs(obj, currentPath) ==
    IF ~isObject(obj) THEN <<>>
    ELSE IF isArray(obj) THEN extractFromArray(obj, currentPath, 0)
    ELSE IF obj.t = "obj" THEN extractFromObject(obj, currentPath, 1)
    ELSE <<>>

(***************************************************************************)
(* The remote store.  A query is a document reference (it has 'update') or *)
(* a collection query.  DocVersions(d) are the values doc.data() can give  *)
(* through the converter for document d; Undefined stands for a document   *)
(* that does not exist.                                                    *)
(***************************************************************************)
DEFAULT_maxRefDepth == 2
MaxRefDepthOption == 2
MaxTimers == 1

CollectionQuery == [t |-> "query"]

isSingleDocumentQuery(query) == query.t = "ref"

Doc(id, fields) == Obj(<< <<"id", Str(id)>> >> \o fields)

DocVersions(d) ==
    CASE d = "A" -> { Undefined,
                      Doc("A", << <<"name", Str("x")>> >>),
                      Doc("A", << <<"boss", Ref("B")>> >>),
                      Doc("A", << <<"org", Obj(<< <<"boss", Ref("C")>> >>)>>,
                                  <<"team", Arr(<<Str("x"), Ref("B")>>)>> >>) }
      [] d = "B" -> { Doc("B", << <<"team", Arr(<<Obj(<< <<"lead", Ref("C")>> >>)>>)>> >>) }
      [] d = "C" -> { Undefined,
                      Doc("C", << <<"boss", Ref("D")>> >>) }
      [] d = "D" -> { Doc("D", << <<"boss", Ref("A")>> >>) }
      [] d = "E1" -> { Doc("E1", << <<"boss", Ref("C")>> >>) }
      [] d = "E2" -> { Doc("E2", << <<"name", Str("x")>> >>) }

RootDocs == {"A"}
CollectionDocs == {"E1", "E2"}
Keys == {"company"}
\* context.state: the state of the store, or a ReactiveVariable of a
\* component; state[Slot(context, key)] is the property key of it
StoreContext == "store"
Contexts == {StoreContext, "user"}
Slot(context, key) == IF context = StoreContext THEN key ELSE context \o "." \o key
Slots == { Slot(context, key) : context \in Contexts, key \in Keys }
\* no Subscription (undefined); a Subscription's identity is its place: the
\* root's number, then for each level below the path of the reference
\* (under a list, the document of the item and the path)
NoSub == <<>>
NoIndex == -1

\* the options object a caller passes: none, or { maxRefDepth: n }
NoOptions == -1
OptionValues == {NoOptions} \cup (0..MaxRefDepthOption)

\* the reset argument of unbind: absent, true, false, or () => []
ResetPolicies == {"undefined", "true", "false", "function"}

VARIABLES
    state,          \* state[key]: the application's state container
    alias,          \* alias[key]: the node whose data object state[key] is
    subscriptions,  \* the registry of the facade: key -> node
    nodes,          \* the Subscription objects alive, by identity
    listeners,      \* the nodes whose onSnapshot listener the store holds
    log,            \* what the last operation did, in order
    once,           \* the call of getFirestoreRef in progress, or the last
    probe           \* a call sequence on the helpers: extractRefs, walkSet, walkGet

vars == <<state, alias, subscriptions, nodes, listeners, log, once, probe>>

(***************************************************************************)
(* An operation runs on a world: the variables as one record, and threw,   *)
(* set when a TypeError leaves the operation.                              *)
(***************************************************************************)
World == [state |-> state, alias |-> alias, subscriptions |-> subscriptions,
          nodes |-> nodes, listeners |-> listeners, log |-> <<>>,
          threw |-> FALSE]

Throw(w) == [w EXCEPT !.threw = TRUE, !.log = Append(@, <<"throw">>)]

\* throw new Error(message)
Fail(w, message) ==
    [w EXCEPT !.threw = TRUE, !.log = Append(@, <<"error", message>>)]

Logged(w, event) == [w EXCEPT !.log = Append(@, event)]

\* the world an operation starts on; the log opens with the call
Called(event) == Logged(World, event)

RootId(w) ==
    <<ToString(CHOOSE i \in 1..(Cardinality(DOMAIN w.nodes) + 1) :
                 /\ <<ToString(i)>> \notin DOMAIN w.nodes
                 /\ \A j \in 1..(i - 1) : <<ToString(j)>> \in DOMAIN w.nodes)>>

WithNode(h, id, node) ==
    [m \in DOMAIN h \cup {id} |-> IF m = id THEN node ELSE h[m]]

\* new Subscription(query, bindingTarget, update); update = NoSub: the default
NewSubscription(self, query, target, property, update) ==
    [ query |-> query,
      target |-> target,
      property |-> property,
      maxRefDepth |-> DEFAULT_maxRefDepth,
      subscriptions |-> IF isSingleDocumentQuery(query) THEN EmptyObj ELSE EmptyArr,
      references |-> EmptyArr,
      data |-> Undefined,
      update |-> IF update = NoSub THEN self ELSE update,
      timers |-> 0 ]

\* setOptions(options)
setOptions(node, options) ==
    IF options = NoOptions THEN node ELSE [node EXCEPT !.maxRefDepth = options]

(***************************************************************************)
(* Writing a node's data to its target.  A child's target is its parent    *)
(* Subscription (property 'data.' + path) or, under a list, the item       *)
(* object; the root's target is the state container.  Objects are shared   *)
(* in the code: state[key] is the root's data object, and a child's data   *)
(* object is the one spliced into its parent's data, so a write into a     *)
(* node's data shows in every object that holds it.  Visible makes it so.  *)
(***************************************************************************)
\* where the item object a child was bound for is in the list (0: it is
\* not); the object is the one the document's last change put there
ItemIndex(list, doc) ==
    IF \E j \in 1..Len(list.e) : GetKey(list.e[j], "id") = Str(doc)
    THEN CHOOSE j \in 1..Len(list.e) : GetKey(list.e[j], "id") = Str(doc)
    ELSE 0

RECURSIVE WriteTarget(_, _)
RECURSIVE Visible(_, _)

\* walkSet(this.targetObject, this.targetProperty, this.data)
WriteTarget(w, n) ==
    LET nd == w.nodes[n]
        tg == nd.target
    IN  IF w.threw THEN w
        ELSE CASE tg.kind = "state" ->
                    [w EXCEPT !.state[tg.key] = nd.data, !.alias[tg.key] = n]
               [] tg.kind = "sub" ->
                    LET this == walkSet(Obj(<< <<"data", w.nodes[tg.id].data>> >>),
                                        nd.property, nd.data)
                    IN  IF this = TypeError THEN Throw(w)
                        ELSE Visible([w EXCEPT !.nodes[tg.id].data =
                                                   GetKey(this, "data")], tg.id)
               [] tg.kind = "item" ->
                    LET list == w.nodes[tg.id].data
                        j == IF isArray(list) THEN ItemIndex(list, tg.doc) ELSE 0
                        item == IF j = 0 THEN TypeError
                                ELSE walkSet(list.e[j], nd.property, nd.data)
                    IN  IF j = 0 THEN w
                        ELSE IF item = TypeError THEN Throw(w)
                        ELSE Visible([w EXCEPT !.nodes[tg.id].data.e[j] = item],
                                     tg.id)

Visible(w, m) ==
    LET nd == w.nodes[m]
    IN  IF nd.target.kind = "state"
        THEN IF w.alias[nd.target.key] = m
             THEN [w EXCEPT !.state[nd.target.key] = nd.data]
             ELSE w
        ELSE WriteTarget(w, m)

(***************************************************************************)
(* Subscription.unbind and #unbindReferences.                              *)
(***************************************************************************)
\* reference.path: an element of this.references is an entry, or (under a
\* list) the array of the entries of one item, which has no path
PathOf(reference) ==
    IF reference.t = "entry" THEN String(reference.path) ELSE Undefined

\* this.#unsubscription?.()
Unsubscribe(w, n) ==
    [w EXCEPT !.listeners = @ \ {n}, !.log = Append(@, <<"release", n>>)]

RECURSIVE UnbindEach(_, _, _, _)
RECURSIVE unbindReferences(_, _, _)
RECURSIVE SubscriptionUnbind(_, _)

\* references.forEach((reference) => walkGet(...).unbind())
UnbindEach(w, references, subs, i) ==
    IF w.threw \/ i > Len(references) THEN w
    ELSE LET subscription == walkGet(subs, PathOf(references[i]))
         IN  IF subscription.t # "sub" THEN Throw(w)
             ELSE UnbindEach(SubscriptionUnbind(w, subscription.id),
                             references, subs, i + 1)

\* an #unbindReferences that empties the structures and unbinds no child
unbindReferencesForgetting(w, n, index) ==
    IF w.threw THEN w
    ELSE IF index = NoIndex
         THEN [w EXCEPT !.nodes[n].references = EmptyArr,
                        !.nodes[n].subscriptions = EmptyObj]
         ELSE [w EXCEPT !.nodes[n].references.e[index + 1] = EmptyArr,
                        !.nodes[n].subscriptions.e[index + 1] = EmptyObj]

unbindReferences(w, n, index) ==
    LET nd == w.nodes[n]
        isSingle == index = NoIndex
        references == IF isSingle THEN nd.references
                      ELSE GetKey(nd.references, ToString(index))
        subs == IF isSingle THEN nd.subscriptions
                ELSE GetKey(nd.subscriptions, ToString(index))
        w1 == UnbindEach(w, references.e, subs, 1)
    IN  IF w.threw THEN w
        ELSE IF ~isArray(references) THEN Throw(w)
        ELSE IF w1.threw THEN w1
        ELSE IF isSingle
             THEN [w1 EXCEPT !.nodes[n].references = EmptyArr,
                             !.nodes[n].subscriptions = EmptyObj]
             ELSE [w1 EXCEPT !.nodes[n].references.e[index + 1] = EmptyArr,
                             !.nodes[n].subscriptions.e[index + 1] = EmptyObj]

\* unbind()
SubscriptionUnbind(w, n) ==
    LET w1 == unbindReferences(w, n, NoIndex)
    IN  IF w1.threw THEN w1 ELSE Unsubscribe(w1, n)

(***************************************************************************)
(* #bindReferences.                                                        *)
(***************************************************************************)
\* a #bindReferences that hands its own budget on
ChildDepthKept(maxRefDepth) == maxRefDepth

\* options.maxRefDepth--
ChildDepth(maxRefDepth) == maxRefDepth - 1

\* if (this.options.maxRefDepth > 0)
BindsReferences(maxRefDepth) == maxRefDepth > 0

RECURSIVE BindEach(_, _, _, _, _)
BindEach(w, n, index, references, i) ==
    IF w.threw \/ i > Len(references) THEN w
    ELSE LET nd == w.nodes[n]
             isSingle == index = NoIndex
             reference == references[i]
             doc == IF isSingle THEN "" ELSE GetKey(nd.data.e[index + 1], "id").s
             id == IF isSingle THEN Append(n, Join(reference.path))
                   ELSE n \o <<doc, Join(reference.path)>>
             startPath == IF isSingle THEN <<"data", ".">> ELSE <<>>
             target == IF isSingle THEN [kind |-> "sub", id |-> n]
                       ELSE [kind |-> "item", id |-> n, doc |-> doc]
             subscription ==
                 [NewSubscription(id, reference.ref, target,
                                  startPath \o reference.path, nd.update)
                    EXCEPT !.maxRefDepth = ChildDepth(nd.maxRefDepth)]
             subs == IF isSingle THEN nd.subscriptions
                     ELSE nd.subscriptions.e[index + 1]
             stored == walkSet(subs, reference.path, SubV(id))
             \* subscription.bind(): the reference is a single-document query
             w1 == [w EXCEPT !.nodes = WithNode(@, id, subscription),
                             !.listeners = @ \cup {id},
                             !.log = Append(@, <<"create", id>>)]
         IN  IF stored = TypeError THEN Throw(w1)
             ELSE BindEach(IF isSingle
                           THEN [w1 EXCEPT !.nodes[n].subscriptions = stored]
                           ELSE [w1 EXCEPT !.nodes[n].subscriptions.e[index + 1] = stored],
                           n, index, references, i + 1)

bindReferences(w, n, index) ==
    LET nd == w.nodes[n]
        isSingle == index = NoIndex
        data == IF isSingle THEN nd.data ELSE nd.data.e[index + 1]
        w1 == IF isSingle THEN [w EXCEPT !.nodes[n].subscriptions = EmptyObj]
              ELSE [w EXCEPT !.nodes[n].subscriptions.e[index + 1] = EmptyObj]
        references == extractRefs(data, <<>>)
        w2 == BindEach(w1, n, index, references, 1)
    IN  IF w.threw \/ ~BindsReferences(nd.maxRefDepth) THEN w
        ELSE IF w2.threw THEN w2
        ELSE IF isSingle
             THEN [w2 EXCEPT !.nodes[n].references = Arr(references)]
             ELSE [w2 EXCEPT !.nodes[n].references.e[index + 1] = Arr(references)]

(***************************************************************************)
(* The default update of a root, its deferred callback, and the snapshot   *)
(* handler of #bindDocument.                                               *)
(***************************************************************************)
\* this.#update(): the root's closure; setTimeout(..., 0)
Update(w, n) ==
    IF w.threw THEN w
    ELSE [w EXCEPT !.nodes[w.nodes[n].update].timers = @ + 1,
                   !.log = Append(@, <<"notify", w.nodes[n].update>>)]

\* isArray(this.data) ? [...this.data] : { ...this.data }
Spread(data) ==
    IF isArray(data) THEN data
    ELSE IF data.t = "obj" THEN Obj(data.kv)
    ELSE EmptyObj

\* the callback given to setTimeout
Timeout(w, n) ==
    WriteTarget([w EXCEPT !.nodes[n].data = Spread(@),
                          !.nodes[n].timers = @ - 1], n)

\* this.data = doc.data() || null; walkSet(target, property, this.data)
DocumentWrite(w, n, doc) ==
    LET w1 == WriteTarget([w EXCEPT !.nodes[n].data =
                                      IF Falsy(doc) THEN Null ELSE doc], n)
    IN  IF w1.threw THEN w1 ELSE Logged(w1, <<"write", n>>)

\* a callback that binds the new children before it unbinds the old
DocumentStepsBindFirst(w, n, doc) ==
    Update(unbindReferences(bindReferences(DocumentWrite(w, n, doc),
                                           n, NoIndex),
                            n, NoIndex),
           n)

\* the order of the onSnapshot callback of #bindDocument
DocumentSteps(w, n, doc) ==
    Update(bindReferences(unbindReferences(DocumentWrite(w, n, doc),
                                           n, NoIndex),
                          n, NoIndex),
           n)

onDocumentSnapshot(w, n, doc) == DocumentSteps(w, n, doc)

(***************************************************************************)
(* #bindCollection: the diff operations of one snapshot, then one write.   *)
(***************************************************************************)
InsertAt(e, index, v) ==
    LET j == IF index > Len(e) THEN Len(e) ELSE index
    IN  SubSeq(e, 1, j) \o <<v>> \o SubSeq(e, j + 1, Len(e))

RemoveAt(e, index) ==
    IF index >= Len(e) THEN e
    ELSE SubSeq(e, 1, index) \o SubSeq(e, index + 2, Len(e))

\* this.data.splice(index, 0, data)
SpliceIn(e, index, v) == InsertAt(e, index, v)

\* a removal that drops the last element, whatever the index
SpliceOutLast(e, index) == SubSeq(e, 1, Len(e) - 1)

\* this.data.splice(index, 1)
SpliceOut(e, index) == RemoveAt(e, index)

addItem(w, n, index, data) ==
    IF w.threw THEN w
    ELSE bindReferences(
               [w EXCEPT !.nodes[n].data.e = SpliceIn(@, index, data),
                         !.nodes[n].subscriptions.e = InsertAt(@, index, EmptyObj),
                         !.nodes[n].references.e = InsertAt(@, index, EmptyArr)],
               n, index)

\* a #removeItem that leaves the placeholders of the item in place
removeItemDataOnly(w, n, index) ==
    LET w1 == unbindReferences(w, n, index)
    IN  IF w1.threw THEN w1
        ELSE [w1 EXCEPT !.nodes[n].data.e = SpliceOut(@, index)]

removeItem(w, n, index) ==
    LET w1 == unbindReferences(w, n, index)
    IN  IF w1.threw THEN w1
        ELSE [w1 EXCEPT !.nodes[n].data.e = SpliceOut(@, index),
                        !.nodes[n].subscriptions.e = RemoveAt(@, index),
                        !.nodes[n].references.e = RemoveAt(@, index)]

Added(newIndex, data) ==
    [type |-> "added", oldIndex |-> NoIndex, newIndex |-> newIndex, data |-> data]

Modified(oldIndex, newIndex, data) ==
    [type |-> "modified", oldIndex |-> oldIndex, newIndex |-> newIndex, data |-> data]

Removed(oldIndex, data) ==
    [type |-> "removed", oldIndex |-> oldIndex, newIndex |-> NoIndex, data |-> data]

\* switch (change.type)
applyChange(w, n, change) ==
    CASE change.type = "added" -> addItem(w, n, change.newIndex, change.data)
      [] change.type = "modified" ->
           addItem(removeItem(w, n, change.oldIndex), n, change.newIndex, change.data)
      [] change.type = "removed" -> removeItem(w, n, change.oldIndex)

RECURSIVE ApplyChanges(_, _, _, _)
ApplyChanges(w, n, changes, i) ==
    IF w.threw \/ i > Len(changes) THEN w
    ELSE ApplyChanges(applyChange(w, n, changes[i]), n, changes, i + 1)

onCollectionSnapshot(w, n, changes) ==
    LET w0 == IF isArray(w.nodes[n].data) THEN w
              ELSE [w EXCEPT !.nodes[n].data = EmptyArr]
        w1 == WriteTarget(ApplyChanges(w0, n, changes, 1), n)
    IN  IF w1.threw THEN w1 ELSE Logged(w1, <<"write", n>>)

(***************************************************************************)
(* The facade: bindFirestoreRef and unbind(state, key, reset).             *)
(***************************************************************************)
\* 'update' in query, of the constructor: a TypeError unless query is an
\* object
InThrows(query) == query.t \in {"undef", "null", "str"}

\* bind(): the check of the query, then #bindDocument or #bindCollection
SubscriptionBind(w, n) ==
    IF Falsy(w.nodes[n].query)
    THEN Fail(w, "Subscription query not defined")
    ELSE [w EXCEPT !.listeners = @ \cup {n},
                   !.log = Append(@, <<"create", n>>)]

\* a bindFirestoreRef that unbinds what the registry holds for key first
bindFirestoreRefReleasing(w, context, key, query, options) ==
    LET w0 == IF w.subscriptions[key] # NoSub
              THEN SubscriptionUnbind(w, w.subscriptions[key])
              ELSE w
        id == RootId(w0)
        subscription ==
            setOptions(NewSubscription(id, query,
                                       [kind |-> "state", key |-> Slot(context, key)],
                                       <<key>>, NoSub), options)
    IN  IF InThrows(query) THEN Throw(w0)
        ELSE SubscriptionBind([w0 EXCEPT !.nodes = WithNode(@, id, subscription),
                                         !.subscriptions[key] = id], id)

bindFirestoreRef(w, context, key, query, options) ==
    LET id == RootId(w)
        subscription ==
            setOptions(NewSubscription(id, query,
                                       [kind |-> "state", key |-> Slot(context, key)],
                                       <<key>>, NoSub), options)
    IN  IF InThrows(query) THEN Throw(w)
        ELSE SubscriptionBind([w EXCEPT !.nodes = WithNode(@, id, subscription),
                                        !.subscriptions[key] = id], id)

\* typeof reset === 'function' ? reset() : null, for reset = () => []
ResetValue(reset) == IF reset = "function" THEN EmptyArr ELSE Null

\* if (reset !== false)
Resets(reset) == reset # "false"

unbind(w, context, key, reset) ==
    LET w1 == IF w.subscriptions[key] # NoSub
              THEN SubscriptionUnbind(w, w.subscriptions[key])
              ELSE w
        w2 == [w1 EXCEPT !.subscriptions[key] = NoSub]
    IN  IF w1.threw THEN w1
        ELSE IF Resets(reset)
             THEN [w2 EXCEPT !.state[Slot(context, key)] = ResetValue(reset),
                             !.alias[Slot(context, key)] = NoSub]
             ELSE w2

(***************************************************************************)
(* Objects nothing refers to any more are dropped: a node stays while the  *)
(* store holds its listener, the registry names it, one of its timers is   *)
(* pending, or a node that stays has it as target or as update closure.    *)
(***************************************************************************)
RECURSIVE Closure(_, _)
Closure(h, S) ==
    LET T == S \cup { h[n].update : n \in S }
               \cup { h[n].target.id : n \in { m \in S : h[m].target.kind # "state" } }
    IN  IF T = S THEN S ELSE Closure(h, T)

Collect(w) ==
    LET keep == Closure(w.nodes,
                        { n \in DOMAIN w.nodes :
                            \/ n \in w.listeners
                            \/ w.nodes[n].timers > 0
                            \/ \E k \in Keys : w.subscriptions[k] = n })
    IN  [w EXCEPT !.nodes = [n \in keep |-> w.nodes[n]],
                  !.alias = [k \in Slots |->
                               IF w.alias[k] \in keep THEN w.alias[k] ELSE NoSub]]

Commit(w) ==
    LET c == Collect(w)
    IN  /\ state' = c.state
        /\ alias' = c.alias
        /\ subscriptions' = c.subscriptions
        /\ nodes' = c.nodes
        /\ listeners' = c.listeners
        /\ log' = c.log
        /\ UNCHANGED <<once, probe>>

(***************************************************************************)
(* What the store can report to a collection listener whose last view of   *)
(* the collection is the documents ids (in order): at most MaxBatch        *)
(* changes, each with the indexes the store computes.                      *)
(***************************************************************************)
MaxBatch == 2

Range(f) == { f[j] : j \in DOMAIN f }

IdsOf(list) == [j \in 1..Len(list.e) |-> GetKey(list.e[j], "id").s]

CollectionVersions == UNION { DocVersions(d) : d \in CollectionDocs }

ValidChanges(ids) ==
    { Added(c[1], c[2]) : c \in
        { c \in (0..Len(ids)) \X CollectionVersions :
            GetKey(c[2], "id").s \notin Range(ids) } }
    \cup
    { Modified(c[1], c[2], c[3]) : c \in
        { c \in (0..(Len(ids) - 1)) \X (0..(Len(ids) - 1)) \X CollectionVersions :
            GetKey(c[3], "id").s = ids[c[1] + 1] } }
    \cup
    { Removed(o, Doc(ids[o + 1], <<>>)) : o \in 0..(Len(ids) - 1) }

IdsAfter(ids, change) ==
    LET id == GetKey(change.data, "id").s
    IN  CASE change.type = "added" -> InsertAt(ids, change.newIndex, id)
          [] change.type = "modified" ->
               InsertAt(RemoveAt(ids, change.oldIndex), change.newIndex, id)
          [] change.type = "removed" -> RemoveAt(ids, change.oldIndex)

RECURSIVE Batches(_, _)
Batches(ids, k) ==
    IF k = 0 THEN {<<>>}
    ELSE {<<>>} \cup UNION { { <<c>> \o rest : rest \in Batches(IdsAfter(ids, c), k - 1) } :
                             c \in ValidChanges(ids) }

(***************************************************************************)
(* One-time mode: get(key, query, state, options) and fillRefs.  A call is *)
(* a record: the promise get returned, the object fillRefs works on, and   *)
(* the pass in flight (the fetches Promise.all waits for).                 *)
(***************************************************************************)
Pending == [t |-> "pending"]
Failed == [t |-> "failed"]

NoPass == [depth |-> 0, refs |-> <<>>, results |-> <<>>, all |-> "none"]

IdleCall ==
    [ promise |-> "none",       \* none, pending, fulfilled, rejected
      key |-> "",
      query |-> Undefined,
      maxRefDepth |-> 0,        \* options.maxRefDepth of the call
      fetched |-> Undefined,    \* the data as the fetch of the query gave it
      obj |-> Undefined,        \* that object, as fillRefs has changed it since
      pass |-> NoPass,
      passes |-> 0,             \* then-callbacks of Promise.all that have run
      updates |-> 0,            \* calls of the update callback
      failed |-> FALSE,         \* a fetch of the call has failed
      ended |-> FALSE ]         \* a fetched reference did not exist, or its
                                \* document held no reference

\* { ...DEFAULT_OPTIONS, ...options }
MergedDepth(options) ==
    IF options = NoOptions THEN DEFAULT_maxRefDepth ELSE options

\* a slice that takes the whole prefix 'data.data.' off the path
SliceAll(path) == SubSeq(path, 5, Len(path))

\* ref.path.slice(5): the path without 'data' and the character after it
Slice5(path) == SubSeq(path, 3, Len(path))

\* the synchronous part of fillRefs(obj, update, options)
fillRefs(c, depth) ==
    IF depth > 0
    THEN LET refs == extractRefs(Obj(<< <<"data", c.obj>> >>), <<"data">>)
         IN  [c EXCEPT !.pass = [depth |-> depth,
                                 refs |-> refs,
                                 results |-> [i \in 1..Len(refs) |-> Pending],
                                 all |-> "pending"]]
    ELSE [c EXCEPT !.pass = NoPass]

\* refs.forEach((ref, i) => walkSet({ data: obj }, path, results[i].data()))
RECURSIVE SpliceAll(_, _, _, _)
SpliceAll(obj, refs, results, i) ==
    IF i > Len(refs) THEN obj
    ELSE LET wrapper == walkSet(Obj(<< <<"data", obj>> >>),
                                Slice5(refs[i].path), results[i])
         IN  SpliceAll(GetKey(wrapper, "data"), refs, results, i + 1)

\* () => state[key] = Object.assign({}, state[key]), or [...state[key]]
UpdateOnce(value) == IF value.t = "obj" THEN Obj(value.kv) ELSE value

\* get is called; its first await is the fetch of the query
GetFirestoreRef(key, query, options) ==
    /\ once.promise # "pending"
    /\ once.pass.all # "pending" /\ once.pass.all # "resolved"
    /\ once' = [IdleCall EXCEPT !.promise = "pending", !.key = key,
                                !.query = query,
                                !.maxRefDepth = MergedDepth(options)]
    /\ UNCHANGED <<state, alias, subscriptions, nodes, listeners, log, probe>>

\* the fetch of the query fails: the await throws
RootFetchFails ==
    /\ once.promise = "pending"
    /\ once' = [once EXCEPT !.promise = "rejected", !.failed = TRUE]
    /\ UNCHANGED <<state, alias, subscriptions, nodes, listeners, log, probe>>

\* the values a collection fetch can give: its documents, in some order
FetchedLists ==
    {<<>>}
    \cup { <<v>> : v \in CollectionVersions }
    \cup { <<v1, v2>> : <<v1, v2>> \in
             { p \in CollectionVersions \X CollectionVersions :
                 GetKey(p[1], "id") # GetKey(p[2], "id") } }

\* the fetch of the query succeeds and get runs to its return
RootFetched(data) ==
    /\ once.promise = "pending"
    /\ LET single == isSingleDocumentQuery(once.query)
           obj == IF single THEN (IF Falsy(data) THEN Null ELSE data) ELSE data
           c == [once EXCEPT !.fetched = obj, !.obj = obj,
                             !.promise = "fulfilled"]
       IN  /\ once' = IF single /\ Falsy(obj) THEN c
                      ELSE fillRefs(c, once.maxRefDepth)
           /\ state' = [state EXCEPT ![once.key] = obj]
           /\ alias' = [alias EXCEPT ![once.key] = NoSub]
    /\ UNCHANGED <<subscriptions, nodes, listeners, log, probe>>

\* a combinator that waits for every promise and then resolves
PromiseAllSettled(results) ==
    IF \A j \in 1..Len(results) : results[j] # Pending THEN "resolved"
    ELSE "pending"

\* Promise.all(...): rejected with the first failure, resolved when all
\* have succeeded
PromiseAll(results) ==
    IF \E j \in 1..Len(results) : results[j] = Failed THEN "rejected"
    ELSE IF \A j \in 1..Len(results) : results[j] # Pending THEN "resolved"
    ELSE "pending"

\* one of the fetches of the pass completes
RefFetched(i, result) ==
    /\ once.pass.all = "pending"
    /\ i \in 1..Len(once.pass.refs)
    /\ once.pass.results[i] = Pending
    /\ LET results == [once.pass.results EXCEPT ![i] = result]
       IN  once' = [once EXCEPT
                      !.pass.results = results,
                      !.pass.all = PromiseAll(results),
                      !.failed = @ \/ result = Failed,
                      !.ended = @ \/ result = Failed
                                    \/ extractRefs(result, <<>>) = <<>>]
    /\ UNCHANGED <<state, alias, subscriptions, nodes, listeners, log, probe>>

\* a fetch completes after Promise.all has rejected: nothing awaits it
LateFetched(i, result) ==
    /\ once.pass.all = "rejected"
    /\ i \in 1..Len(once.pass.refs)
    /\ once.pass.results[i] = Pending
    /\ once' = [once EXCEPT !.pass.results[i] = result]
    /\ UNCHANGED <<state, alias, subscriptions, nodes, listeners, log, probe>>

\* the then-callback of Promise.all: splice, update, and the next fillRefs.
\* state[key] is obj until the first update and a shallow copy of it from
\* then on, and a pass after the first writes below the top level of obj
\* only, into objects the copy shares: every write shows in state[key].
PassThen ==
    /\ \/ once.pass.all = "resolved"
       \/ once.pass.all = "pending" /\ once.pass.refs = <<>>
    /\ LET obj == SpliceAll(once.obj, once.pass.refs, once.pass.results, 1)
           seen == [state EXCEPT ![once.key] = obj]
           c == [once EXCEPT !.obj = obj,
                             !.passes = @ + 1,
                             !.updates = @ + 1]
       IN  /\ state' = [seen EXCEPT ![once.key] = UpdateOnce(@)]
           /\ once' = fillRefs(c, once.pass.depth - 1)
    /\ UNCHANGED <<alias, subscriptions, nodes, listeners, log, probe>>

FetchResults(d) == DocVersions(d) \cup {Failed}

NextOnce ==
    \/ \E key \in Keys, d \in RootDocs, options \in OptionValues :
         GetFirestoreRef(key, Ref(d), options)
    \/ \E key \in Keys, options \in OptionValues :
         GetFirestoreRef(key, CollectionQuery, options)
    \/ RootFetchFails
    \/ /\ isSingleDocumentQuery(once.query)
       /\ \E data \in DocVersions(once.query.id) : RootFetched(data)
    \/ /\ once.query = CollectionQuery
       /\ \E docs \in FetchedLists : RootFetched(Arr(docs))
    \/ \E i \in 1..Len(once.pass.refs) :
         \E result \in FetchResults(once.pass.refs[i].ref.id) : RefFetched(i, result)
    \/ \E i \in 1..Len(once.pass.refs) :
         \E result \in FetchResults(once.pass.refs[i].ref.id) : LateFetched(i, result)
    \/ PassThen

(***************************************************************************)
(* The helpers on their own: extractRefs(root), then walkSet(target,       *)
(* path, value) for the path of one entry, then walkGet on the result.     *)
(* The target is the root itself or {}: a Subscription keeps its child     *)
(* subscriptions in an object that starts empty.                           *)
(***************************************************************************)
MaxEntries == 4

NoProbe == [step |-> "none"]

\* a reference handle with a property that is a handle itself
RefWithParent == [t |-> "ref", id |-> "B", parent |-> Ref("P")]

Leaves == {Str("x"), Ref("B"), RefWithParent}

ObjectsOf(S) == { Obj(<< <<"a", v>> >>) : v \in S }
                \cup { Obj(<< <<"a", v>>, <<"b", w>> >>) : v \in S, w \in S }

ArraysOf(S) == { Arr(<<v>>) : v \in S } \cup { Arr(<<v, w>>) : v \in S, w \in S }

Flat == ObjectsOf(Leaves) \cup ArraysOf(Leaves)

ProbeRoots ==
    ObjectsOf(Leaves \cup Flat)
    \cup { Obj(<< <<"a", Obj(<< <<"b", Arr(<<Str("x"), Null,
                                             Obj(<< <<"c", Ref("B")>> >>)>>)>> >>)>> >>),
           Obj(<< <<"items", Arr(<<Ref("B")>>)>> >>),
           Obj(<< <<"a.b", Ref("B")>> >>),
           Obj(<< <<"a", Str("x")>>, <<"a.b", Ref("B")>> >>),
           Obj(<< <<"a", Arr(<<Arr(<<Str("x"), Arr(<<Ref("B")>>)>>)>>)>> >>) }

ProbeValues == {Str("v"), Ref("Z"), SubV(<<"1">>), Null}

InitPaths ==
    /\ state = [k \in Slots |-> Null]
    /\ alias = [k \in Slots |-> NoSub]
    /\ subscriptions = [k \in Keys |-> NoSub]
    /\ nodes = <<>>
    /\ listeners = {}
    /\ log = <<>>
    /\ once = IdleCall
    /\ probe \in { [step |-> "root", root |-> r] : r \in ProbeRoots }

ExtractRefs ==
    /\ probe.step = "root"
    /\ probe' = [step |-> "extracted", root |-> probe.root,
                 entries |-> extractRefs(probe.root, <<>>)]
    /\ UNCHANGED <<state, alias, subscriptions, nodes, listeners, log, once>>

WalkSet(i, target, value) ==
    /\ probe.step = "extracted"
    /\ i \in 1..Len(probe.entries)
    /\ probe' = [step |-> "set", root |-> probe.root, entries |-> probe.entries,
                 path |-> probe.entries[i].path, value |-> value,
                 object |-> walkSet(target, probe.entries[i].path, value)]
    /\ UNCHANGED <<state, alias, subscriptions, nodes, listeners, log, once>>

WalkGet ==
    /\ probe.step = "set"
    /\ probe' = [probe EXCEPT !.step = "got"] @@
                [got |-> walkGet(probe.object, String(probe.path))]
    /\ UNCHANGED <<state, alias, subscriptions, nodes, listeners, log, once>>

NextPaths ==
    \/ ExtractRefs
    \/ \E i \in 1..MaxEntries, value \in ProbeValues :
          \/ WalkSet(i, probe.root, value)
          \/ WalkSet(i, EmptyObj, value)
    \/ WalkGet

SpecPaths == InitPaths /\ [][NextPaths]_vars

(***************************************************************************)
(* The actions of live mode.                                               *)
(***************************************************************************)
Init ==
    /\ state = [k \in Slots |-> Null]
    /\ alias = [k \in Slots |-> NoSub]
    /\ subscriptions = [k \in Keys |-> NoSub]
    /\ nodes = <<>>
    /\ listeners = {}
    /\ log = <<>>
    /\ once = IdleCall
    /\ probe = NoProbe

\* what the registry holds for key
BoundAs(key) ==
    IF subscriptions[key] = NoSub THEN "nothing"
    ELSE IF isSingleDocumentQuery(nodes[subscriptions[key]].query) THEN "document"
    ELSE "collection"

\* the nodes of the tree below n: those whose target chain leads to n
RECURSIVE Under(_, _)
Under(m, n) ==
    /\ nodes[m].target.kind # "state"
    /\ \/ nodes[m].target.id = n
       \/ Under(nodes[m].target.id, n)

ListeningUnder(n) == { m \in listeners : Under(m, n) }

\* bindFirestoreRef(key, query, options), by an application that holds one
\* binding at a time and binds again once the last one's callbacks have run
Bind(key, query, options) ==
    /\ DOMAIN nodes = {}
    /\ Commit(bindFirestoreRef(Called(<<"bind", key, query>>),
                               StoreContext, key, query, options))

\* unbindFirestoreRef(key, reset), or the closure bindFirestoreRef returned
Unbind(key, reset) ==
    Commit(unbind(Called(<<"unbind", key, reset, BoundAs(key), state[key]>>),
                  StoreContext, key, reset))

\* the store delivers a snapshot of its document to a listener
DocumentSnapshot(n) ==
    /\ n \in listeners
    /\ isSingleDocumentQuery(nodes[n].query)
    /\ nodes[nodes[n].update].timers < MaxTimers
    /\ \E doc \in DocVersions(nodes[n].query.id) :
         Commit(onDocumentSnapshot(
                    Called(<<"snapshot", n, doc, ListeningUnder(n)>>), n, doc))

\* the store delivers the changes of its collection to a listener
CollectionSnapshot(n) ==
    /\ n \in listeners
    /\ ~isSingleDocumentQuery(nodes[n].query)
    /\ \E changes \in Batches(IF isArray(nodes[n].data) THEN IdsOf(nodes[n].data)
                              ELSE <<>>, MaxBatch) :
         Commit(onCollectionSnapshot(
                    Called(<<"batch", n, changes, nodes[n].data>>), n, changes))

\* a deferred callback of the default update runs
RunTimeout(n) ==
    /\ nodes[n].timers > 0
    /\ Commit(Timeout(Called(<<"timeout", n, nodes[n].data>>), n))

Next ==
    \/ \E key \in Keys, d \in RootDocs, options \in OptionValues :
         Bind(key, Ref(d), options)
    \/ \E key \in Keys, options \in OptionValues :
         Bind(key, CollectionQuery, options)
    \/ \E key \in Keys, reset \in ResetPolicies : Unbind(key, reset)
    \/ \E n \in DOMAIN nodes : DocumentSnapshot(n)
    \/ \E n \in DOMAIN nodes : CollectionSnapshot(n)
    \/ \E n \in DOMAIN nodes : RunTimeout(n)

Spec == Init /\ [][Next]_vars

(***************************************************************************)
(* The facade and the Subscription class as an application can misuse      *)
(* them: binding without a query, binding a key again while it is bound,   *)
(* and calling unbind() of a Subscription more than once.                  *)
(***************************************************************************)
MaxRoots == 2

\* the options of these bindings: { maxRefDepth: 0 } or { maxRefDepth: 1 }
ApiOptions == {0, 1}

\* a query that was not supplied
NoQueries == {Undefined, Null}

Roots == { n \in DOMAIN nodes : nodes[n].target.kind = "state" }

\* bindFirestoreRef(key, query, options) while Subscriptions are alive
BindAgain(key, query, options) ==
    /\ DOMAIN nodes # {}
    /\ Cardinality(Roots) < MaxRoots
    /\ Commit(bindFirestoreRef(Called(<<"bind", key, query>>),
                               StoreContext, key, query, options))

\* unbind() of the Subscription the registry holds, called once more or
\* for the first time
UnbindCall(n) ==
    /\ \E key \in Keys : subscriptions[key] = n
    /\ Commit(SubscriptionUnbind(
                 Called(<<"Subscription.unbind", n, n \in listeners>>), n))

NextApi ==
    \/ \E key \in Keys, d \in RootDocs, options \in ApiOptions :
         Bind(key, Ref(d), options)
    \/ \E key \in Keys, query \in NoQueries, options \in ApiOptions :
         Bind(key, query, options)
    \/ \E key \in Keys, d \in RootDocs, options \in ApiOptions :
         BindAgain(key, Ref(d), options)
    \/ \E key \in Keys, reset \in ResetPolicies : Unbind(key, reset)
    \/ \E n \in DOMAIN nodes : DocumentSnapshot(n)
    \/ \E n \in DOMAIN nodes : RunTimeout(n)
    \/ \E n \in DOMAIN nodes : UnbindCall(n)

SpecApi == Init /\ [][NextApi]_vars

(***************************************************************************)
(* The facade used from two contexts: the store and a component, each      *)
(* with a state container of its own, both binding under the same key.     *)
(* The registry is one object of the module, shared by all contexts.       *)
(***************************************************************************)
\* the root Subscriptions whose target is property key of the context's state
Owned(context, key) ==
    { n \in Roots : nodes[n].target.key = Slot(context, key) }

\* the options of the bindings: the store passes { maxRefDepth: 0 } or
\* { maxRefDepth: 1 }, the component { maxRefDepth: 0 }
ContextOptions(context) == IF context = StoreContext THEN ApiOptions ELSE {0}

\* bindFirestoreRef(key, query, options) of a context that holds no binding
BindIn(context, key, query, options) ==
    /\ Owned(context, key) = {}
    /\ Cardinality(Roots) < MaxRoots
    /\ Commit(bindFirestoreRef(
                 Called(<<"bindFirestoreRef", context, key, query, listeners>>),
                 context, key, query, options))

\* unbindFirestoreRef(key, reset) of a context, or the closure its
\* bindFirestoreRef returned
UnbindIn(context, key, reset) ==
    Commit(unbind(Called(<<"unbindFirestoreRef", context, key, reset,
                           Owned(context, key), listeners, subscriptions[key]>>),
                  context, key, reset))

NextContexts ==
    \/ \E context \in Contexts, key \in Keys, d \in RootDocs :
         \E options \in ContextOptions(context) :
            BindIn(context, key, Ref(d), options)
    \/ \E context \in Contexts, key \in Keys, reset \in ResetPolicies :
         UnbindIn(context, key, reset)
    \/ \E n \in DOMAIN nodes : DocumentSnapshot(n)
    \/ \E n \in DOMAIN nodes : RunTimeout(n)

SpecContexts == Init /\ [][NextContexts]_vars

SpecOnce == Init /\ [][NextOnce]_vars

(***************************************************************************)
(* The properties.  The log of a state is what the last operation did; its *)
(* first event is the call, with what the call found.                      *)
(***************************************************************************)
LastCall(op) == log # <<>> /\ log[1][1] = op

Threw == \E i \in 1..Len(log) : log[i][1] = "throw"

Events(kind) == { i \in 2..Len(log) : log[i][1] = kind }

\* a is the identity of an ancestor of b
IsAbove(a, b) == Len(a) < Len(b) /\ SubSeq(b, 1, Len(a)) = a

\* no Subscription is released before one of the tree below it
ChildrenReleasedFirst ==
    \A i \in Events("release"), j \in Events("release") :
        i < j => ~IsAbove(log[i][2], log[j][2])

RECURSIVE Level(_)
Level(n) ==
    IF nodes[n].target.kind = "state" THEN 0 ELSE 1 + Level(nodes[n].target.id)

\* C1: after unbind(key, reset) the registry holds nothing for key, and
\* state[key] is what it was (reset false), reset() (a function: []), or
\* null (every other reset).
C1_UnbindAppliesResetPolicy ==
    LastCall("unbind") =>
        LET key == log[1][2]
            reset == log[1][3]
            before == log[1][5]
        IN  /\ subscriptions[key] = NoSub
            /\ state[key] = IF reset = "false" THEN before
                            ELSE IF reset = "function" THEN EmptyArr
                            ELSE Null

\* C2: unbinding a collection binding with no reset argument leaves
\* state[key] an empty array.
C2_CollectionDefaultResetIsEmptyArray ==
    (LastCall("unbind") /\ log[1][4] = "collection" /\ log[1][3] = "undefined")
        => state[log[1][2]] = EmptyArr

\* C4: a node at level d of a tree bound with maxRefDepth N has budget
\* N - d, so d <= N; the snapshot of a node leaves it children if and only
\* if its data holds references and d < N; a batch creates children if and
\* only if it adds an item with references to a list bound with N > 0.
C4_TreeDepthWithinBudget ==
    /\ \A n \in DOMAIN nodes :
         LET N == nodes[nodes[n].update].maxRefDepth
         IN  /\ Level(n) <= N
             /\ nodes[n].maxRefDepth = N - Level(n)
    /\ LastCall("snapshot") =>
         LET n == log[1][2]
             N == nodes[nodes[n].update].maxRefDepth
         IN  (ListeningUnder(n) # {}) <=>
                 (extractRefs(nodes[n].data, <<>>) # <<>> /\ Level(n) < N)
    /\ LastCall("batch") =>
         LET n == log[1][2]
             changes == log[1][3]
         IN  /\ (Events("create") # {}) <=>
                   /\ nodes[n].maxRefDepth > 0
                   /\ \E k \in 1..Len(changes) :
                        /\ changes[k].type # "removed"
                        /\ extractRefs(changes[k].data, <<>>) # <<>>
             /\ nodes[n].maxRefDepth = 0 => ListeningUnder(n) = {}

\* a node at level N = 2 has taken data with a reference and has no child
C4_LeafAtBudget ==
    /\ LastCall("snapshot")
    /\ Level(log[1][2]) = 2
    /\ nodes[nodes[log[1][2]].update].maxRefDepth = 2
    /\ extractRefs(nodes[log[1][2]].data, <<>>) # <<>>
    /\ ListeningUnder(log[1][2]) = {}

\* C7: a snapshot of a missing document sets the node's data and state[key]
\* to null and binds no child, and state[key] is null still when the
\* deferred callback of that snapshot's update has run.
C7_MissingDocumentStaysNull ==
    /\ (LastCall("snapshot") /\ log[1][3] = Undefined) =>
         LET n == log[1][2]
         IN  /\ nodes[n].data = Null
             /\ ListeningUnder(n) = {}
             /\ nodes[n].target.kind = "state" => state[nodes[n].target.key] = Null
             /\ ~Threw
    /\ (LastCall("timeout") /\ log[1][3] = Null) =>
         LET n == log[1][2]
         IN  subscriptions[nodes[n].target.key] = n
                 => state[nodes[n].target.key] = Null

\* C8: a document snapshot writes the value first, then releases every
\* Subscription of the tree below the node (children before parents), then
\* creates the children for the new data, and calls update last; state[key]
\* is the data of the root's snapshot.
C8_SnapshotOrder ==
    LastCall("snapshot") =>
        LET n == log[1][2]
            doc == log[1][3]
            before == log[1][4]
        IN  /\ ~Threw
            /\ log[2] = <<"write", n>>
            /\ Events("write") = {2}
            /\ log[Len(log)] = <<"notify", nodes[n].update>>
            /\ { log[i][2] : i \in Events("release") } = before
            /\ \A i \in Events("release"), j \in Events("create") : i < j
            /\ ChildrenReleasedFirst
            /\ ListeningUnder(n) = { log[j][2] : j \in Events("create") }
            /\ nodes[n].target.kind = "state" =>
                 state[nodes[n].target.key] = IF doc = Undefined THEN Null ELSE doc

\* a snapshot of the root released a child and a grandchild of the last
\* snapshot and created a child for the new one
C8_ChildrenReplaced ==
    /\ LastCall("snapshot")
    /\ nodes[log[1][2]].target.kind = "state"
    /\ \E a \in log[1][4], b \in log[1][4] : IsAbove(a, b)
    /\ Events("create") # {}

\* added(i, d), removed(i), and modified(o, n, d) as C9 states them
Inserted(list, i, d) ==
    [j \in 1..(Len(list) + 1) |->
        IF j <= i THEN list[j] ELSE IF j = i + 1 THEN d ELSE list[j - 1]]

Deleted(list, i) ==
    [j \in 1..(Len(list) - 1) |-> IF j <= i THEN list[j] ELSE list[j + 1]]

RECURSIVE Applied(_, _, _)
Applied(list, changes, k) ==
    IF k > Len(changes) THEN list
    ELSE LET c == changes[k]
         IN  Applied(CASE c.type = "added" -> Inserted(list, c.newIndex, c.data)
                       [] c.type = "removed" -> Deleted(list, c.oldIndex)
                       [] c.type = "modified" ->
                            Inserted(Deleted(list, c.oldIndex), c.newIndex, c.data),
                     changes, k + 1)

\* C9: after a batch the list is the list before it with the batch's
\* operations applied in order, and it is written to state[key] once, after
\* the operations.
C9_BatchAppliesDiffInOrder ==
    LastCall("batch") =>
        LET n == log[1][2]
            changes == log[1][3]
            before == IF isArray(log[1][4]) THEN log[1][4].e ELSE <<>>
        IN  /\ ~Threw
            /\ nodes[n].data = Arr(Applied(before, changes, 1))
            /\ state[nodes[n].target.key] = nodes[n].data
            /\ Events("write") = {Len(log)}
            /\ log[Len(log)] = <<"write", n>>

\* [removed(0)] on a list of two leaves the second
C9_RemovedFirstOfTwo ==
    /\ LastCall("batch")
    /\ Len(log[1][3]) = 1
    /\ log[1][3][1].type = "removed"
    /\ log[1][3][1].oldIndex = 0
    /\ isArray(log[1][4])
    /\ Len(log[1][4].e) = 2
    /\ state[nodes[log[1][2]].target.key] = Arr(<<log[1][4].e[2]>>)

\* C10: when unbind of a bound root has returned, every listener of its
\* tree has been released, each after the listeners of the tree below it.
C10_UnbindReleasesWholeTree ==
    (LastCall("unbind") /\ log[1][4] # "nothing") =>
        /\ listeners = {}
        /\ ChildrenReleasedFirst

(***************************************************************************)
(* The properties of one-time mode.                                        *)
(***************************************************************************)
\* the levels at which v holds a reference handle: the fields of the
\* fetched document are level 1, those of a document spliced in one more
RECURSIVE HandleLevels(_, _)
HandleLevels(v, d) ==
    CASE v.t = "ref" -> {d}
      [] v.t = "arr" -> UNION { HandleLevels(v.e[j], d) : j \in 1..Len(v.e) }
      [] v.t = "obj" ->
           UNION { HandleLevels(v.kv[j][2], IF HasKey(v, "id") THEN d + 1 ELSE d) :
                     j \in 1..Len(v.kv) }
      [] OTHER -> {}

\* the call has returned and no pass of it is in flight or to come
ResolutionOver == once.promise = "fulfilled" /\ once.pass.all = "none"

\* C3: when the resolution is over and no fetch has failed, the handles
\* left in the data are those of level N + 1, and there are some if the
\* data had references and every document fetched had one (the chains are
\* longer than N); state[key] shows the same, and at most N passes have
\* run; with N = 0 nothing is fetched.
C3_ResolvesExactlyNLevels ==
    /\ (ResolutionOver /\ ~once.failed) =>
          /\ HandleLevels(once.obj, 0) \subseteq {once.maxRefDepth + 1}
          /\ (HandleLevels(once.fetched, 0) # {} /\ ~once.ended)
                => HandleLevels(once.obj, 0) # {}
          /\ state[once.key] = once.obj
          /\ once.passes <= once.maxRefDepth
    /\ once.maxRefDepth = 0 =>
          /\ once.pass = NoPass
          /\ once.passes = 0
          /\ once.obj = once.fetched

\* a chain of three references, resolved with N = 2: two levels are data
\* and the third is a handle
C3_TwoLevelsOfThree ==
    /\ ResolutionOver
    /\ ~once.failed
    /\ ~once.ended
    /\ once.maxRefDepth = 2
    /\ once.passes = 2
    /\ HandleLevels(once.fetched, 0) = {1}
    /\ HandleLevels(once.obj, 0) = {3}

\* C5: when the promise of get is fulfilled, no fetch of the call is
\* outstanding.
C5_PromiseResolvesAfterResolution ==
    once.promise = "fulfilled" =>
        \A i \in 1..Len(once.pass.results) : once.pass.results[i] # Pending

\* C6: when a fetch of the call has failed, the promise of get is rejected.
C6_FetchFailureRejects ==
    once.failed => once.promise = "rejected"

(***************************************************************************)
(* The properties of the misused facade.                                   *)
(***************************************************************************)
\* C11: unbind() of a Subscription whose listener is released already does
\* not throw and does not call the unsubscribe handle again.
C11_SecondUnbindDoesNothing ==
    (LastCall("Subscription.unbind") /\ ~log[1][3]) =>
        /\ ~Threw
        /\ Events("release") = {}

\* C12: binding without a query fails with 'Subscription query not defined'
\* and establishes no listener.
C12_BindWithoutQueryFails ==
    (LastCall("bind") /\ Falsy(log[1][3])) =>
        /\ \E i \in Events("error") : log[i][2] = "Subscription query not defined"
        /\ Events("create") = {}

Registered(n) == \E key \in Keys : subscriptions[key] = n

\* C13: a bind of a bound key overwrites the registry entry, throws nothing
\* and releases nothing; a root's listener is released only by an unbind of
\* the root the registry holds, and unbind(key) releases listeners of the
\* tree of that root only: the overwritten root stays subscribed for ever.
C13_RebindOrphansPrevious ==
    [][ /\ \A n \in Roots \cap listeners :
             \/ n \in listeners'
             \/ Registered(n) /\ log'[1][1] \in {"unbind", "Subscription.unbind"}
        /\ (log'[1][1] = "bind" /\ ~InThrows(log'[1][3])) =>
             LET key == log'[1][2]
             IN  /\ subscriptions'[key] \notin DOMAIN nodes
                 /\ subscriptions'[key] \in listeners'
                 /\ \A i \in 2..Len(log') : log'[i][1] = "create"
                 /\ listeners \subseteq listeners'
        /\ log'[1][1] = "unbind" =>
             LET root == subscriptions[log'[1][2]]
             IN  /\ subscriptions'[log'[1][2]] = NoSub
                 /\ \A i \in 2..Len(log') :
                      log'[i][1] = "release" =>
                          \/ log'[i][2] = root
                          \/ IsAbove(root, log'[i][2])
      ]_vars

\* unbind(key) has released the root the registry held, and the root that
\* the second bind overwrote is subscribed still
C13_OrphanSurvivesUnbind ==
    /\ LastCall("unbind")
    /\ Events("release") # {}
    /\ subscriptions[log[1][2]] = NoSub
    /\ \E n \in Roots \cap listeners : ~Registered(n)

(***************************************************************************)
(* C14: for every path P that extractRefs emits and every value V,         *)
(* walkGet(root, P) after walkSet(root, P, V) is V.                        *)
(***************************************************************************)
\* the path has an index directly after an index: a[0][1]
ConsecutiveIndexes(path) ==
    \E j \in 1..(Len(path) - 1) : path[j] = "]" /\ path[j + 1] = "["

C14_WalkGetReadsWhatWalkSetWrote ==
    probe.step = "got" => probe.got = probe.value

(***************************************************************************)
(* C15: extractRefs(value) has exactly one entry for each reference field  *)
(* reachable through plain objects and arrays, none for a field inside a   *)
(* reference; the entries come in the order of the properties (ascending   *)
(* indexes for an array), and walkGet(value, entry.path) is entry.ref.     *)
(* That two calls on one value agree is true of any operator.              *)
(***************************************************************************)
\* the property names of a plain object or an array
OwnKeys(v) ==
    CASE v.t = "obj" -> { v.kv[j][1] : j \in 1..Len(v.kv) }
      [] v.t = "arr" -> { ToString(i) : i \in 0..(Len(v.e) - 1) }
      [] OTHER -> {}

\* the reference fields of v, each as the property names that lead to it
RECURSIVE RefFields(_)
RefFields(v) ==
    UNION { LET c == GetKey(v, k)
            IN  IF isFirestoreRef(c) THEN {<<k>>}
                ELSE { <<k>> \o rest : rest \in RefFields(c) } : k \in OwnKeys(v) }

\* the property names a path denotes
KeyPath(path) ==
    LET segments == Split(StripLeadingDot(IndexesToProperties(path)), <<>>)
    IN  [j \in 1..Len(segments) |-> Join(segments[j])]

RECURSIVE Descend(_, _)
Descend(v, keys) ==
    IF keys = <<>> THEN v ELSE Descend(GetKey(v, Head(keys)), Tail(keys))

\* where two key paths part
Fork(p, q) ==
    CHOOSE d \in 1..Len(p) : /\ d <= Len(q)
                             /\ p[d] # q[d]
                             /\ SubSeq(p, 1, d - 1) = SubSeq(q, 1, d - 1)

\* the place of property k among the properties of v
Place(v, k) ==
    IF v.t = "arr" THEN NumberOf(k)
    ELSE CHOOSE j \in 1..Len(v.kv) : v.kv[j][1] = k

IsPrefix(p, q) == Len(p) <= Len(q) /\ SubSeq(q, 1, Len(p)) = p

C15_ExtractRefsListsEveryReference ==
    probe.step = "extracted" =>
        LET root == probe.root
            entries == probe.entries
            at(i) == KeyPath(entries[i].path)
        IN  /\ Len(entries) = Cardinality(RefFields(root))
            /\ { at(i) : i \in 1..Len(entries) } = RefFields(root)
            /\ \A i \in 1..Len(entries) :
                  /\ isFirestoreRef(entries[i].ref)
                  /\ walkGet(root, String(entries[i].path)) = entries[i].ref
            /\ \A i, j \in 1..Len(entries) :
                  i < j =>
                    /\ ~IsPrefix(at(i), at(j))
                    /\ ~IsPrefix(at(j), at(i))
                    /\ LET d == Fork(at(i), at(j))
                           container == Descend(root, SubSeq(at(i), 1, d - 1))
                       IN  Place(container, at(i)[d]) < Place(container, at(j)[d])

(***************************************************************************)
(* C16: a pass of fillRefs is all or nothing.  Once a fetch of the pass    *)
(* has failed, every reference of the pass stays a handle, the pass runs   *)
(* no callback and starts no pass, and what the earlier passes wrote       *)
(* stays; a pass whose then-callback runs had every fetch succeed, and     *)
(* the value the update callback publishes holds every result.             *)
(***************************************************************************)
\* what the pass reads at the path of its i-th reference
AtRef(obj, i) ==
    walkGet(Obj(<< <<"data", obj>> >>), String(Slice5(once.pass.refs[i].path)))

C16_PassIsAllOrNothing ==
    [][ LET refs == once.pass.refs
            results == once.pass.results
        IN  /\ once.pass.all = "rejected" =>
                 /\ \A i \in 1..Len(refs) : AtRef(once.obj, i) = refs[i].ref
                 /\ once.passes = once.maxRefDepth - once.pass.depth
                 /\ once.updates = once.passes
                 /\ \/ once'.promise = "pending" /\ once'.passes = 0
                    \/ /\ once'.obj = once.obj
                       /\ state' = state
                       /\ once'.passes = once.passes
                       /\ once'.updates = once.updates
                       /\ once'.pass.all = "rejected"
            /\ once'.passes = once.passes + 1 =>
                 /\ \A i \in 1..Len(refs) :
                       /\ results[i] \notin {Pending, Failed}
                       /\ AtRef(state'[once.key], i) = results[i]
                 /\ once'.updates = once.updates + 1 ]_vars

\* the second pass of a call fails while another fetch of it has succeeded
C16_SecondPassRejected ==
    /\ once.pass.all = "rejected"
    /\ once.passes = 1
    /\ \E i, j \in 1..Len(once.pass.refs) :
          /\ once.pass.results[i] = Failed
          /\ once.pass.results[j] \notin {Pending, Failed}

(***************************************************************************)
(* C17: a pass that finds no reference ends the resolution: it does not    *)
(* invoke the update callback and no pass follows it, so a call whose      *)
(* data holds no reference never invokes the callback.                     *)
(***************************************************************************)
C17_NoReferenceNoUpdate ==
    (once.promise = "fulfilled" /\ extractRefs(once.fetched, <<>>) = <<>>) =>
        /\ once.updates = 0
        /\ once.passes = 0

(***************************************************************************)
(* C18: when a snapshot or a batch has been handled, the listeners the     *)
(* store holds are the nodes reachable from the registered root through    *)
(* the subscriptions structures, and each node with a budget has one       *)
(* child per reference of its own data: the child stands in subscriptions  *)
(* at the path of the reference, listens to that reference with the budget *)
(* less one, and the data holds at that path the reference or what the     *)
(* child has written there; every other reference in the data lies inside  *)
(* what a child has written.  A node without budget has no child.          *)
(***************************************************************************)
\* the Subscriptions held in a subscriptions structure
RECURSIVE SubIds(_)
SubIds(v) ==
    CASE v.t = "sub" -> {v.id}
      [] v.t = "arr" -> UNION { SubIds(v.e[j]) : j \in 1..Len(v.e) }
      [] v.t = "obj" -> UNION { SubIds(v.kv[j][2]) : j \in 1..Len(v.kv) }
      [] OTHER -> {}

RECURSIVE Tree(_)
Tree(n) ==
    IF n \notin DOMAIN nodes THEN {n}
    ELSE {n} \cup UNION { Tree(c) : c \in SubIds(nodes[n].subscriptions) }

Mirrors(data, references, subs, maxRefDepth) ==
    IF maxRefDepth = 0
    THEN references = <<>> /\ SubIds(subs) = {}
    ELSE /\ Cardinality(SubIds(subs)) = Len(references)
         /\ \A i \in 1..Len(references) :
               LET path == String(references[i].path)
                   child == walkGet(subs, path)
               IN  /\ child.t = "sub"
                   /\ child.id \in listeners
                   /\ nodes[child.id].query = references[i].ref
                   /\ nodes[child.id].maxRefDepth = maxRefDepth - 1
                   /\ walkGet(data, path) \in {references[i].ref, nodes[child.id].data}
         /\ LET found == extractRefs(data, <<>>)
            IN  \A j \in 1..Len(found) :
                   \E i \in 1..Len(references) :
                      IsPrefix(references[i].path, found[j].path)

NodeMirrors(n) ==
    LET nd == nodes[n]
    IN  IF isSingleDocumentQuery(nd.query)
        THEN Mirrors(nd.data, nd.references.e, nd.subscriptions, nd.maxRefDepth)
        ELSE IF ~isArray(nd.data) THEN SubIds(nd.subscriptions) = {}
        ELSE \A i \in 1..Len(nd.data.e) :
                Mirrors(nd.data.e[i], nd.references.e[i].e, nd.subscriptions.e[i],
                        nd.maxRefDepth)

C18_ListenersAreTheTree ==
    (LastCall("snapshot") \/ LastCall("batch")) =>
        /\ listeners = UNION { Tree(subscriptions[key]) :
                                 key \in { k \in Keys : subscriptions[k] # NoSub } }
        /\ \A n \in listeners : NodeMirrors(n)

\* a snapshot at a child of the root has put new children in the place of
\* the children it had
C18_GrandchildrenReplaced ==
    /\ LastCall("snapshot")
    /\ Len(log[1][2]) = 2
    /\ log[1][4] # {}
    /\ Events("release") # {}
    /\ Events("create") # {}

(***************************************************************************)
(* C19: in every state of a bound collection, for every maxRefDepth, its   *)
(* data, subscriptions and references have the same length, and for each   *)
(* index the paths of references[i] are the paths where subscriptions[i]   *)
(* holds a Subscription, bound for the item that is at that index.         *)
(***************************************************************************)
\* the paths, as property names, at which a structure holds a Subscription
RECURSIVE SubPlaces(_)
SubPlaces(v) ==
    UNION { LET c == GetKey(v, k)
            IN  IF c.t = "sub" THEN {<<k>>}
                ELSE { <<k>> \o rest : rest \in SubPlaces(c) } : k \in OwnKeys(v) }

\* the collection bindings that are listening
Lists == { n \in listeners : ~isSingleDocumentQuery(nodes[n].query) }

C19_ListStructuresAligned ==
    \A n \in Lists :
        LET nd == nodes[n]
            length == IF isArray(nd.data) THEN Len(nd.data.e) ELSE 0
        IN  /\ isArray(nd.subscriptions) /\ Len(nd.subscriptions.e) = length
            /\ isArray(nd.references) /\ Len(nd.references.e) = length
            /\ \A i \in 1..length :
                  LET references == nd.references.e[i]
                      subs == nd.subscriptions.e[i]
                  IN  /\ isArray(references)
                      /\ { KeyPath(references.e[j].path) :
                             j \in 1..Len(references.e) } = SubPlaces(subs)
                      /\ Cardinality(SubPlaces(subs)) = Len(references.e)
                      /\ \A j \in 1..Len(references.e) :
                            LET child == nodes[walkGet(subs,
                                            String(references.e[j].path)).id]
                            IN  /\ child.target = [kind |-> "item", id |-> n,
                                                   doc |-> GetKey(nd.data.e[i], "id").s]
                                /\ child.query = references.e[j].ref
                                /\ child.property = references.e[j].path

\* a batch that released a child has left two items: the first without a
\* reference, the second with a child
C19_SecondItemHasChild ==
    /\ LastCall("batch")
    /\ \E n \in Lists :
          /\ isArray(nodes[n].data)
          /\ Len(nodes[n].data.e) = 2
          /\ SubPlaces(nodes[n].subscriptions.e[2]) # {}
          /\ nodes[n].references.e[1] = EmptyArr
    /\ \E i \in DOMAIN log : log[i][1] = "release"

(***************************************************************************)
(* C20: once unbind has returned, the tree it unbound writes state[key]    *)
(* no more: while the registry holds nothing for key, no step but a call   *)
(* of unbind changes state[key].                                           *)
(***************************************************************************)
C20_UnboundTreeNeverWrites ==
    [][ \A key \in Keys :
           (subscriptions[key] = NoSub /\ log' # <<>> /\ log'[1][1] # "unbind")
              => state'[key] = state[key] ]_vars

(***************************************************************************)
(* C21: bindings of different state containers are independent.  A bind    *)
(* in one context releases no listener; an unbind in a context releases    *)
(* the Subscriptions that context's bind created, releases no Subscription *)
(* of a tree another context created, and leaves the registration of       *)
(* another context's Subscription as it was.                               *)
(***************************************************************************)
C21_ContextsAreIndependent ==
    /\ LastCall("bindFirestoreRef") => log[1][5] \subseteq listeners
    /\ LastCall("unbindFirestoreRef") =>
          LET owned == log[1][5]
              before == log[1][6]
              registered == log[1][7]
          IN  /\ \A i \in Events("release") : <<Head(log[i][2])>> \in owned
              /\ owned \cap before \cap listeners = {}
              /\ (registered # NoSub /\ registered \notin owned)
                    => subscriptions[log[1][3]] = registered

=============================================================================
